---- MODULE Spec2Model ----
(***************************************************************************)
(* Model of app.py, the Streamlit content-creator assistant.               *)
(*                                                                         *)
(* The script is re-executed from its first line on every user             *)
(* interaction.  One action of the model is one such run: the widget that  *)
(* was touched, the handler it triggers and the rest of the script that    *)
(* renders the page.  The persisted state is the two ChromaDB collections; *)
(* the session state is st.session_state.enhanced_script and the values of *)
(* the widgets.                                                            *)
(*                                                                         *)
(* ChromaDB, the embedding function and the two LLM SDKs are libraries:    *)
(* they are modelled by their documented contract.  Collection.add of an   *)
(* id that is already stored is ignored without an error,                  *)
(* Collection.delete removes the given ids, Collection.query returns the   *)
(* min(n_results, matching) nearest entries in an order the embedding      *)
(* decides (any order here), and a backend call may raise.                 *)
(* Documents are opaque tokens; the timestamp metadata                     *)
(* (str(datetime.now())) is written once, never read by the program, and   *)
(* left out, as are the improvement focus and the model choice, which only *)
(* select the wording of the prompt and the SDK that is called.            *)
(***************************************************************************)
EXTENDS Naturals, FiniteSets, Sequences

VARIABLES
    credsOK,               \* openai_key and claude_key are both set (line 32)
    my_style_collection,   \* id -> entry, collection "my_content_style"
    creators_collection,   \* id -> entry, collection "favorite_creators"
    user_script,           \* value of the "Your rough draft:" text area
    inspiration_source,    \* value of the radio, Undefined when it is not run
    enhanced_script,       \* st.session_state.enhanced_script, or Absent
    context,               \* the context built by the last run, or NotBuilt
    messages,              \* st.error / st.success shown by the last run
    uncaught,              \* where an exception escaped the last run
    rendered,              \* the action buttons the last run rendered
    creator_selection,     \* the multiselect's value in a run that improves
    last,                  \* the interaction that triggered the last run
    pc,                    \* shared store: position of each session's save
    pending,               \* shared store: the add each session has computed
    raced                  \* shared store: another add took the same id first

vars == <<credsOK, my_style_collection, creators_collection, user_script,
          inspiration_source, enhanced_script, context, messages, uncaught,
          rendered, creator_selection, last, pc, pending, raced>>

storeVars == <<my_style_collection, creators_collection>>
sessionVars == <<user_script, inspiration_source, enhanced_script, context,
                 messages, uncaught, rendered, creator_selection, last>>
sharedVars == <<pc, pending, raced>>

----------------------------------------------------------------------------
(* Bounds and input domains *)

MaxEntries == 2

StyleK == 2
CreatorK == 3
ExcerptLen == 400

StyleInputs ==
    {[title |-> "Intro Hook", text |-> "x", notes |-> ""],
     [title |-> "Intro Hook", text |-> "x", notes |-> "casual tone"],
     [title |-> "", text |-> "x", notes |-> ""],
     [title |-> "Intro Hook", text |-> "", notes |-> "casual tone"],
     [title |-> "", text |-> "", notes |-> ""]}

CreatorInputs ==
    {[creator_name |-> "ann", content_title |-> "Video", text |-> "x", notes |-> ""],
     [creator_name |-> "bob", content_title |-> "Video", text |-> "x",
      notes |-> "strong hook"],
     [creator_name |-> "", content_title |-> "Video", text |-> "x", notes |-> ""],
     [creator_name |-> "ann", content_title |-> "", text |-> "x", notes |-> ""],
     [creator_name |-> "bob", content_title |-> "Video", text |-> "",
      notes |-> "strong hook"]}

Drafts == {"", "draft"}
Generated == {"g1", "g2"}
Backends == Generated \cup {"query raises", "generation raises"}
Sessions == {"s1", "s2"}

SelfOnly == "My personal style only"
CreatorsOnly == "Favorite creators only"
Both == "Both my style and favorite creators"
Sources == {SelfOnly, CreatorsOnly, Both}
SelfSources == {SelfOnly, Both}
CreatorSources == {CreatorsOnly, Both}

Undefined == "<undefined>"
Absent == "<absent>"

CredsError == "Please set both OPENAI_API_KEY and ANTHROPIC_API_KEY in your .env file!"
ImproveOK == "Script improved successfully!"
ImproveError == "Error improving script"
SavedStyle == "Saved"
SavedCreator == "Saved content from"

ImproveButton == "Improve My Script"
SaveStyleButton == "Save My Style Example"
SaveCreatorButton == "Save Creator Content"
DeleteStyleButton == "delete_my_"
DeleteCreatorButton == "delete_creator_"

Min(a, b) == IF a < b THEN a ELSE b

----------------------------------------------------------------------------
(* The example store *)

Size(coll) == Cardinality(DOMAIN coll)

EmptyCollection == [i \in {} |-> [document |-> ""]]

StyleId(n) == <<"my_style_", n>>
CreatorId(n) == <<"creator_", n>>

NextStyleId(coll) == StyleId(Size(coll) + 1)
NextCreatorId(coll) == CreatorId(Size(coll) + 1)

StyleEntry(in) ==
    [document |-> in.text, title |-> in.title, notes |-> in.notes]

CreatorEntry(in) ==
    [document |-> in.text, creator_name |-> in.creator_name,
     content_title |-> in.content_title, notes |-> in.notes]

(* Faulty variant: "or" in place of "and" at line 252. *)
StyleValid_Either(in) == in.title # "" \/ in.text # ""

StyleValid(in) == in.title # "" /\ in.text # ""

CreatorValid(in) ==
    in.creator_name # "" /\ in.content_title # "" /\ in.text # ""

(* Faulty variant: upsert, which overwrites a stored id. *)
CollectionAdd_Upsert(coll, id, entry) ==
    [i \in DOMAIN coll \cup {id} |-> IF i = id THEN entry ELSE coll[i]]

CollectionAdd(coll, id, entry) ==
    IF id \in DOMAIN coll
    THEN coll
    ELSE [i \in DOMAIN coll \cup {id} |-> IF i = id THEN entry ELSE coll[i]]

(* Faulty variant: deletes by document instead of by id. *)
CollectionDelete_SameDocument(coll, id) ==
    [i \in {j \in DOMAIN coll : coll[j].document # coll[id].document} |-> coll[i]]

CollectionDelete(coll, id) == [i \in DOMAIN coll \ {id} |-> coll[i]]

SaveStyleExample(coll, in) ==
    IF StyleValid(in)
    THEN CollectionAdd(coll, NextStyleId(coll), StyleEntry(in))
    ELSE coll

SaveCreatorContent(coll, in) ==
    IF CreatorValid(in)
    THEN CollectionAdd(coll, NextCreatorId(coll), CreatorEntry(in))
    ELSE coll

----------------------------------------------------------------------------
(* Similarity query and the context builder *)

NoSelection == [widget |-> "None", chosen |-> {}]
Selected(names) == [widget |-> "multiselect", chosen |-> names]

CreatorNamesIn(coll) == {coll[i].creator_name : i \in DOMAIN coll}

(* The values creator_selection can have in a run (lines 117-128). *)
Selections(source, creators) ==
    IF source \in CreatorSources /\ DOMAIN creators # {}
    THEN {Selected(names) : names \in SUBSET CreatorNamesIn(creators)}
    ELSE {NoSelection}

NoFilter == [applied |-> FALSE, in |-> {}]

(* Faulty variant: the selection never reaches the query. *)
where_filter_Never(selection) == NoFilter

where_filter(selection) ==
    IF selection.chosen # {}
    THEN [applied |-> TRUE, in |-> selection.chosen]
    ELSE NoFilter

Matching(coll, where) ==
    IF where.applied
    THEN {i \in DOMAIN coll : coll[i].creator_name \in where.in}
    ELSE DOMAIN coll

Orderings(S) ==
    {q \in [1..Cardinality(S) -> S] :
        \A i, j \in 1..Cardinality(S) : i # j => q[i] # q[j]}

(* collection.query: the possible result lists. *)
Query(coll, n_results, where) ==
    LET m == Matching(coll, where)
        n == Min(n_results, Cardinality(m))
    IN  UNION {Orderings(T) : T \in {U \in SUBSET m : Cardinality(U) = n}}

Excerpt(doc) == [of |-> doc, first |-> ExcerptLen, then |-> "..."]

Block(label, i, name, title, doc) ==
    [label |-> label, i |-> i, name |-> name, title |-> title, doc |-> doc]

StyleHeader ==
    Block("Your personal writing style examples:", 0, "", "", Excerpt(""))
CreatorHeader ==
    Block("Successful creator examples for inspiration:", 0, "", "", Excerpt(""))

StyleBlock(i, entry) ==
    Block("Your Style Example", i, "", entry.title, Excerpt(entry.document))

CreatorBlock(i, entry) ==
    Block("Creator Example", i, entry.creator_name, entry.content_title,
          Excerpt(entry.document))

(* Faulty variant: the header is appended without the test of line 162. *)
StyleParts_NoEmptyCheck(coll, result) ==
    <<StyleHeader>> \o [i \in 1..Len(result) |-> StyleBlock(i, coll[result[i]])]

StyleParts(coll, result) ==
    IF result # <<>>
    THEN <<StyleHeader>> \o [i \in 1..Len(result) |-> StyleBlock(i, coll[result[i]])]
    ELSE <<>>

CreatorParts(coll, result) ==
    IF result # <<>>
    THEN <<CreatorHeader>>
           \o [i \in 1..Len(result) |-> CreatorBlock(i, coll[result[i]])]
    ELSE <<>>

NotBuilt == [kind |-> "not built", parts |-> <<>>]
Sentinel == [kind |-> "No relevant examples found.", parts |-> <<>>]
Joined(parts) == [kind |-> "joined", parts |-> parts]

(* context_parts of lines 155-180 for given query results. *)
context_parts(source, style, styleResult, creators, creatorResult) ==
    (IF source \in SelfSources THEN StyleParts(style, styleResult) ELSE <<>>)
      \o (IF source \in CreatorSources
          THEN CreatorParts(creators, creatorResult) ELSE <<>>)

BuildContext(parts) == IF parts # <<>> THEN Joined(parts) ELSE Sentinel

(* The contexts line 182 can produce in the current state. *)
Contexts(source, style, creators, selection) ==
    {BuildContext(context_parts(source, style, sr, creators, cr)) :
        sr \in Query(style, StyleK, NoFilter),
        cr \in Query(creators, CreatorK, where_filter(selection))}

(* Faulty variant: a failed call clears the session slot. *)
StoreResult_Clears(old, backend) ==
    IF backend \in Generated THEN backend ELSE Absent

(* Lines 204-212: the session slot after make_ai_call returned or raised. *)
StoreResult(old, backend) ==
    IF backend \in Generated THEN backend ELSE old

----------------------------------------------------------------------------
(* One run of the script: where it stops and what it renders.              *)
(* Without credentials the else-branch of line 34 never runs, so the two   *)
(* collections and make_ai_call are unbound names in the rest of the       *)
(* script; with an empty draft inspiration_source is unbound at line 152.  *)

Stop(creds, script, source, click, valid) ==
    IF ~creds /\ script # "" /\ source \in CreatorSources THEN "L119"
    ELSE IF click = "improve" /\ script = "" THEN "L152"
    ELSE IF ~creds /\ click = "save_style" /\ valid THEN "L253"
    ELSE IF ~creds THEN "L265"
    ELSE "none"

Buttons(stop, style, creators) ==
    CASE stop = "L119" -> {}
      [] stop = "L152" -> {ImproveButton}
      [] stop \in {"L253", "L265"} -> {ImproveButton, SaveStyleButton}
      [] OTHER -> {ImproveButton, SaveStyleButton, SaveCreatorButton}
                    \cup (IF DOMAIN style # {} THEN {DeleteStyleButton} ELSE {})
                    \cup (IF DOMAIN creators # {} THEN {DeleteCreatorButton} ELSE {})

StartupMessages(creds) == IF creds THEN {} ELSE {CredsError}

(* The radio exists only while the draft is non-empty (line 107); its first
   option is its default. *)
RadioValue(script, source) ==
    IF script = "" THEN Undefined
    ELSE IF source = Undefined THEN SelfOnly
    ELSE source

----------------------------------------------------------------------------
(* Initial state: the page after its first run, on a store persisted by    *)
(* earlier runs.                                                           *)

InitialStyle ==
    {EmptyCollection,
     CollectionAdd(EmptyCollection, StyleId(1),
                   [document |-> "x", title |-> "Intro Hook", notes |-> ""])}

InitialCreators ==
    {EmptyCollection,
     CollectionAdd(EmptyCollection, CreatorId(1),
                   [document |-> "x", creator_name |-> "ann",
                    content_title |-> "Video", notes |-> ""])}

NoSave == [coll |-> "none", id |-> <<"", 0>>, entry |-> [document |-> ""]]

InitSession ==
    /\ user_script = ""
    /\ inspiration_source = Undefined
    /\ enhanced_script = Absent
    /\ context = NotBuilt
    /\ messages = StartupMessages(credsOK)
    /\ uncaught = Stop(credsOK, "", Undefined, "load", FALSE)
    /\ rendered = Buttons(uncaught, my_style_collection, creators_collection)
    /\ creator_selection = NoSelection
    /\ last = [op |-> "load", arg |-> "-"]

InitSessions ==
    /\ pc = [s \in Sessions |-> "idle"]
    /\ pending = [s \in Sessions |-> NoSave]
    /\ raced = [s \in Sessions |-> "no"]

Init ==
    /\ credsOK \in BOOLEAN
    /\ my_style_collection \in InitialStyle
    /\ creators_collection \in InitialCreators
    /\ InitSession
    /\ InitSessions

----------------------------------------------------------------------------
(* One session: every run completes before the next interaction *)

(* The rest of a run after its handler: escape point, buttons, messages. *)
Rerun(script, source, style, creators, click, valid, shown) ==
    LET stop == Stop(credsOK, script, source, click, valid)
    IN  /\ uncaught' = stop
        /\ rendered' = Buttons(stop, style, creators)
        /\ messages' = StartupMessages(credsOK) \cup shown

(* The user edits the draft text area. *)
EditDraft(script) ==
    /\ script # user_script
    /\ user_script' = script
    /\ inspiration_source' = RadioValue(script, inspiration_source)
    /\ last' = [op |-> "edit_draft", arg |-> "-"]
    /\ context' = NotBuilt
    /\ creator_selection' = NoSelection
    /\ Rerun(script, RadioValue(script, inspiration_source),
             my_style_collection, creators_collection, "none", FALSE, {})
    /\ UNCHANGED <<credsOK, storeVars, enhanced_script, sharedVars>>

(* The user picks an inspiration source on the radio. *)
ChooseSource(source) ==
    /\ user_script # ""
    /\ source # inspiration_source
    /\ inspiration_source' = source
    /\ last' = [op |-> "choose_source", arg |-> "-"]
    /\ context' = NotBuilt
    /\ creator_selection' = NoSelection
    /\ Rerun(user_script, source, my_style_collection, creators_collection,
             "none", FALSE, {})
    /\ UNCHANGED <<credsOK, storeVars, user_script, enhanced_script, sharedVars>>

(* "Improve My Script" is clicked (lines 151-212). *)
Improve(selection, backend) ==
    /\ ImproveButton \in rendered
    /\ LET entered == user_script # ""
           bound == credsOK /\ entered
           built == bound /\ backend # "query raises"
       IN  /\ last' = [op |-> "improve",
                       arg |-> IF bound THEN backend ELSE "not called"]
           /\ selection \in
                 (IF bound
                  THEN Selections(inspiration_source, creators_collection)
                  ELSE {NoSelection})
           /\ creator_selection' = selection
           /\ IF built
              THEN context' \in Contexts(inspiration_source, my_style_collection,
                                         creators_collection, selection)
              ELSE context' = NotBuilt
           /\ enhanced_script' =
                 IF built THEN StoreResult(enhanced_script, backend)
                 ELSE enhanced_script
           /\ Rerun(user_script, inspiration_source, my_style_collection,
                    creators_collection, "improve", FALSE,
                    IF ~entered THEN {}
                    ELSE IF built /\ backend \in Generated THEN {ImproveOK}
                    ELSE {ImproveError})
    /\ UNCHANGED <<credsOK, storeVars, user_script, inspiration_source,
                   sharedVars>>

(* "Save My Style Example" is clicked (lines 251-262). *)
SaveStyle(in) ==
    /\ SaveStyleButton \in rendered
    /\ Size(my_style_collection) < MaxEntries
    /\ last' = [op |-> "save_style",
                arg |-> IF StyleValid(in) THEN "valid" ELSE "missing field"]
    /\ LET saved == IF credsOK
                    THEN SaveStyleExample(my_style_collection, in)
                    ELSE my_style_collection
       IN  /\ my_style_collection' = saved
           /\ Rerun(user_script, inspiration_source, saved, creators_collection,
                    "save_style", StyleValid(in),
                    IF credsOK /\ StyleValid(in) THEN {SavedStyle} ELSE {})
    /\ context' = NotBuilt
    /\ creator_selection' = NoSelection
    /\ UNCHANGED <<credsOK, creators_collection, user_script, inspiration_source,
                   enhanced_script, sharedVars>>

(* Faulty variant: the creator tab adds to the style collection. *)
SaveCreator_IntoStyle(in) ==
    /\ SaveCreatorButton \in rendered
    /\ Size(creators_collection) < MaxEntries
    /\ last' = [op |-> "save_creator",
                arg |-> IF CreatorValid(in) THEN "valid" ELSE "missing field"]
    /\ my_style_collection' =
         IF CreatorValid(in)
         THEN CollectionAdd(my_style_collection,
                            NextCreatorId(creators_collection), CreatorEntry(in))
         ELSE my_style_collection
    /\ Rerun(user_script, inspiration_source, my_style_collection',
             creators_collection, "save_creator", CreatorValid(in),
             IF CreatorValid(in) THEN {SavedCreator} ELSE {})
    /\ context' = NotBuilt
    /\ creator_selection' = NoSelection
    /\ UNCHANGED <<credsOK, creators_collection, user_script, inspiration_source,
                   enhanced_script, sharedVars>>

(* "Save Creator Content" is clicked (lines 307-319). *)
SaveCreator(in) ==
    /\ SaveCreatorButton \in rendered
    /\ Size(creators_collection) < MaxEntries
    /\ last' = [op |-> "save_creator",
                arg |-> IF CreatorValid(in) THEN "valid" ELSE "missing field"]
    /\ creators_collection' = SaveCreatorContent(creators_collection, in)
    /\ Rerun(user_script, inspiration_source, my_style_collection,
             SaveCreatorContent(creators_collection, in),
             "save_creator", CreatorValid(in),
             IF CreatorValid(in) THEN {SavedCreator} ELSE {})
    /\ context' = NotBuilt
    /\ creator_selection' = NoSelection
    /\ UNCHANGED <<credsOK, my_style_collection, user_script, inspiration_source,
                   enhanced_script, sharedVars>>

(* A "Delete" button of the style library is clicked; st.rerun() follows. *)
DeleteStyle(id) ==
    /\ DeleteStyleButton \in rendered
    /\ id \in DOMAIN my_style_collection
    /\ my_style_collection' = CollectionDelete(my_style_collection, id)
    /\ last' = [op |-> "delete_style", arg |-> "-"]
    /\ context' = NotBuilt
    /\ creator_selection' = NoSelection
    /\ Rerun(user_script, inspiration_source,
             CollectionDelete(my_style_collection, id), creators_collection,
             "none", FALSE, {})
    /\ UNCHANGED <<credsOK, creators_collection, user_script, inspiration_source,
                   enhanced_script, sharedVars>>

(* A "Delete" button of the creator library is clicked; st.rerun() follows. *)
DeleteCreator(id) ==
    /\ DeleteCreatorButton \in rendered
    /\ id \in DOMAIN creators_collection
    /\ creators_collection' = CollectionDelete(creators_collection, id)
    /\ last' = [op |-> "delete_creator", arg |-> "-"]
    /\ context' = NotBuilt
    /\ creator_selection' = NoSelection
    /\ Rerun(user_script, inspiration_source, my_style_collection,
             CollectionDelete(creators_collection, id), "none", FALSE, {})
    /\ UNCHANGED <<credsOK, my_style_collection, user_script, inspiration_source,
                   enhanced_script, sharedVars>>

AllSelections ==
    {NoSelection} \cup {Selected(names) : names \in SUBSET {"ann", "bob"}}

Next ==
    \/ \E script \in Drafts : EditDraft(script)
    \/ \E source \in Sources : ChooseSource(source)
    \/ \E selection \in AllSelections, backend \in Backends :
          Improve(selection, backend)
    \/ \E in \in StyleInputs : SaveStyle(in)
    \/ \E in \in CreatorInputs : SaveCreator(in)
    \/ \E n \in 1..MaxEntries : DeleteStyle(StyleId(n))
    \/ \E n \in 1..MaxEntries : DeleteCreator(CreatorId(n))

Spec == Init /\ [][Next]_vars

----------------------------------------------------------------------------
(* Two sessions on the same store (init_vector_databases is cached with    *)
(* st.cache_resource, and the store is a directory on disk).  A save reads *)
(* the collection's ids to number the new entry and then calls add; the    *)
(* other session's store calls can fall between the two.                   *)

SavingTo(s, name) == pc[s] = "adding" /\ pending[s].coll = name

Stored(name) ==
    IF name = "style" THEN my_style_collection ELSE creators_collection

(* Line 260: the id is computed from the ids stored now. *)
BeginSaveStyle(s, in) ==
    /\ credsOK
    /\ pc[s] = "idle"
    /\ StyleValid(in)
    /\ Size(my_style_collection) < MaxEntries
    /\ pending' = [pending EXCEPT ![s] =
                     [coll |-> "style", id |-> NextStyleId(my_style_collection),
                      entry |-> StyleEntry(in)]]
    /\ pc' = [pc EXCEPT ![s] = "adding"]
    /\ raced' = [raced EXCEPT ![s] = "no"]
    /\ UNCHANGED <<credsOK, storeVars, sessionVars>>

(* Line 317: the id is computed from the ids stored now. *)
BeginSaveCreator(s, in) ==
    /\ credsOK
    /\ pc[s] = "idle"
    /\ CreatorValid(in)
    /\ Size(creators_collection) < MaxEntries
    /\ pending' = [pending EXCEPT ![s] =
                     [coll |-> "creators",
                      id |-> NextCreatorId(creators_collection),
                      entry |-> CreatorEntry(in)]]
    /\ pc' = [pc EXCEPT ![s] = "adding"]
    /\ raced' = [raced EXCEPT ![s] = "no"]
    /\ UNCHANGED <<credsOK, storeVars, sessionVars>>

(* Lines 253 and 309: the add itself.  raced records, for the session that
   adds, whether the entry now stored under its id is its own. *)
FinishSave(s) ==
    /\ pc[s] = "adding"
    /\ IF pending[s].coll = "style"
       THEN /\ my_style_collection' =
                 CollectionAdd(my_style_collection, pending[s].id, pending[s].entry)
            /\ UNCHANGED creators_collection
       ELSE /\ creators_collection' =
                 CollectionAdd(creators_collection, pending[s].id, pending[s].entry)
            /\ UNCHANGED my_style_collection
    /\ pc' = [pc EXCEPT ![s] = "idle"]
    /\ pending' = [pending EXCEPT ![s] = NoSave]
    /\ raced' = [t \in Sessions |->
                   IF t = s
                   THEN IF raced[s] = "no" THEN "no"
                        ELSE IF (IF pending[s].coll = "style"
                                 THEN my_style_collection'
                                 ELSE creators_collection')[pending[s].id]
                                  = pending[s].entry
                        THEN "mine stored" ELSE "other stored"
                   ELSE IF /\ SavingTo(t, pending[s].coll)
                           /\ pending[t].id = pending[s].id
                        THEN "id taken" ELSE raced[t]]
    /\ UNCHANGED <<credsOK, sessionVars>>

(* Lines 283 and 350 in a session that is not in the middle of a save. *)
SessionDelete(s, name, id) ==
    /\ credsOK
    /\ pc[s] = "idle"
    /\ IF name = "style"
       THEN /\ id \in DOMAIN my_style_collection
            /\ my_style_collection' = CollectionDelete(my_style_collection, id)
            /\ UNCHANGED creators_collection
       ELSE /\ id \in DOMAIN creators_collection
            /\ creators_collection' = CollectionDelete(creators_collection, id)
            /\ UNCHANGED my_style_collection
    /\ UNCHANGED <<credsOK, sessionVars, sharedVars>>

NextShared ==
    \/ \E s \in Sessions, in \in StyleInputs : BeginSaveStyle(s, in)
    \/ \E s \in Sessions, in \in CreatorInputs : BeginSaveCreator(s, in)
    \/ \E s \in Sessions : FinishSave(s)
    \/ \E s \in Sessions, n \in 1..MaxEntries :
          SessionDelete(s, "style", StyleId(n))
    \/ \E s \in Sessions, n \in 1..MaxEntries :
          SessionDelete(s, "creators", CreatorId(n))

InitShared == Init /\ credsOK

SpecShared == InitShared /\ [][NextShared]_vars

----------------------------------------------------------------------------
(* Properties *)

CreatorBlocks(ctx) ==
    {ctx.parts[i] : i \in {j \in DOMAIN ctx.parts :
                              ctx.parts[j].label = "Creator Example"}}

RemovedExactly(before, after, id) ==
    /\ id \in DOMAIN before
    /\ DOMAIN after = DOMAIN before \ {id}
    /\ Size(after) + 1 = Size(before)
    /\ \A j \in DOMAIN after : after[j] = before[j]

(* C1: after any sequence of saves and deletes, a save whose required
   fields are all non-empty grows its collection by exactly one entry, and
   the new entry is stored under "my_style_<n>" / "creator_<n>" with
   n = size before the save + 1.  (Stated for runs with credentials, where
   the save handlers can reach the store.) *)
C1_ValidSaveAddsOneEntry ==
    [][/\ \A in \in StyleInputs :
            (credsOK /\ SaveStyle(in) /\ in.title # "" /\ in.text # "")
            => LET id == <<"my_style_", Size(my_style_collection) + 1>>
               IN  /\ Size(my_style_collection') = Size(my_style_collection) + 1
                   /\ id \in DOMAIN my_style_collection'
                   /\ my_style_collection'[id] =
                        [document |-> in.text, title |-> in.title,
                         notes |-> in.notes]
       /\ \A in \in CreatorInputs :
            (SaveCreator(in) /\ in.creator_name # "" /\ in.content_title # ""
               /\ in.text # "")
            => LET id == <<"creator_", Size(creators_collection) + 1>>
               IN  /\ Size(creators_collection') = Size(creators_collection) + 1
                   /\ id \in DOMAIN creators_collection'
                   /\ creators_collection'[id] =
                        [document |-> in.text, creator_name |-> in.creator_name,
                         content_title |-> in.content_title, notes |-> in.notes]
      ]_vars

(* C2: a save in which a required field is empty (style: title or text;
   creator: creator name, content title or text) leaves both collections
   exactly as they were. *)
C2_IncompleteSaveChangesNothing ==
    [][/\ \A in \in StyleInputs :
            (SaveStyle(in) /\ (in.title = "" \/ in.text = ""))
            => UNCHANGED storeVars
       /\ \A in \in CreatorInputs :
            (SaveCreator(in) /\ (in.creator_name = "" \/ in.content_title = ""
                                   \/ in.text = ""))
            => UNCHANGED storeVars
      ]_vars

(* C2 witness: an incomplete style save has just run on a non-empty store. *)
C2_Witness ==
    /\ credsOK
    /\ last = [op |-> "save_style", arg |-> "missing field"]
    /\ DOMAIN my_style_collection # {}
    /\ DOMAIN creators_collection # {}

(* C3: deleting an id that is stored removes exactly that entry: the size
   drops by one, the id is no longer listed, and every other entry keeps
   its id, text and metadata. *)
C3_DeleteRemovesExactlyOne ==
    [][/\ \A n \in 1..MaxEntries :
            DeleteStyle(<<"my_style_", n>>)
            => RemovedExactly(my_style_collection, my_style_collection',
                              <<"my_style_", n>>)
       /\ \A n \in 1..MaxEntries :
            DeleteCreator(<<"creator_", n>>)
            => RemovedExactly(creators_collection, creators_collection',
                              <<"creator_", n>>)
      ]_vars

(* C3 witness: a style entry was just deleted and another one is still
   stored. *)
C3_Witness ==
    /\ last.op = "delete_style"
    /\ DOMAIN my_style_collection # {}

(* C4: when the generation backend raises during an improve, the run shows
   the error message and enhanced_script is what it was before: not
   overwritten, not cleared, not created. *)
C4_FailedGenerationKeepsResult ==
    [][\A selection \in AllSelections :
          (Improve(selection, "generation raises") /\ context' # NotBuilt)
          => /\ ImproveError \in messages'
             /\ ImproveOK \notin messages'
             /\ enhanced_script' = enhanced_script
      ]_vars

(* C4 witness: generation has just failed in a session that holds an
   earlier result. *)
C4_Witness ==
    /\ last = [op |-> "improve", arg |-> "generation raises"]
    /\ context # NotBuilt
    /\ enhanced_script \in Generated
    /\ ImproveError \in messages

(* C5: without both credentials the error is shown and the workflow is
   blocked: no save, delete or improve button is usable and none of these
   actions runs. *)
C5_MissingCredentialsBlockWorkflow ==
    ~credsOK =>
        /\ CredsError \in messages
        /\ rendered = {}
        /\ last.op \notin {"improve", "save_style", "save_creator",
                           "delete_style", "delete_creator"}

(* C6: no failure escapes a user-triggered action; an improve ends with
   generated text or with an error message, also when the draft is empty
   at the click. *)
C6_NoFailureEscapesImprove ==
    (credsOK /\ last.op = "improve") =>
        /\ uncaught = "none"
        /\ ImproveOK \in messages \/ ImproveError \in messages

(* C7: with a non-empty creator selection every creator example in the
   context has a creator_name of the selection; with an empty selection
   the creator query is unrestricted, so it returns min(3, stored)
   entries, whoever their creator is. *)
C7_CreatorFilter ==
    (last.op = "improve" /\ context # NotBuilt) =>
        /\ creator_selection.chosen # {}
             => \A b \in CreatorBlocks(context) :
                   b.name \in creator_selection.chosen
        /\ (creator_selection.chosen = {} /\ inspiration_source \in CreatorSources)
             => Cardinality(CreatorBlocks(context))
                  = Min(3, Size(creators_collection))

(* C7 witness: an improve restricted to one creator built a context from a
   collection that also holds another creator's content. *)
C7_Witness ==
    /\ last.op = "improve"
    /\ creator_selection.chosen = {"ann"}
    /\ "bob" \in CreatorNamesIn(creators_collection)
    /\ CreatorBlocks(context) # {}

NothingToRetrieve ==
    /\ inspiration_source \in SelfSources => DOMAIN my_style_collection = {}
    /\ inspiration_source \in CreatorSources
         => \A i \in DOMAIN creators_collection :
               /\ creator_selection.chosen # {}
               /\ creators_collection[i].creator_name
                    \notin creator_selection.chosen

(* C8: in every mode, when the queried collections hold nothing that can
   be returned the builder does not raise and the context is exactly the
   sentinel; the context is the sentinel only when no block was produced. *)
C8_SentinelOnEmptyStore ==
    last.op = "improve" =>
        /\ (last.arg \notin {"not called", "query raises"}) => context # NotBuilt
        /\ context # NotBuilt
             => /\ uncaught = "none"
                /\ context = Sentinel <=> NothingToRetrieve
                /\ context = Sentinel <=> context.parts = <<>>

(* C8 witness: an improve over both sources found both collections empty. *)
C8_Witness ==
    /\ last.op = "improve"
    /\ inspiration_source = Both
    /\ context = Sentinel

(* C9 as stated: when a session's add runs after another session's add
   took the same id, the entry stored under that id afterwards is the one
   of the later add. *)
C9_LastWriteWins ==
    [][\A s \in Sessions :
          (FinishSave(s) /\ raced[s] = "id taken")
          => (IF pending[s].coll = "style"
              THEN my_style_collection' ELSE creators_collection')[pending[s].id]
               = pending[s].entry
      ]_vars

(* C9 amended: two sessions can compute the same id; when the later add
   runs while that id is stored, the add is ignored and the store keeps
   the entry of the earlier add. *)
C9_FirstWriteWins ==
    [][\A s \in Sessions :
          (/\ FinishSave(s)
           /\ raced[s] = "id taken"
           /\ pending[s].id \in DOMAIN Stored(pending[s].coll))
          => UNCHANGED storeVars
      ]_vars

(* C9 witness: a session's add completed after the other session's add of
   the same id, and the id holds the other session's entry. *)
C9_Witness ==
    \E s \in Sessions : pc[s] = "idle" /\ raced[s] = "other stored"

(* C10: the collections share no state: saves and deletes of one leave the
   other unchanged, and an improve changes neither. *)
C10_CollectionsIndependent ==
    [][/\ last'.op \in {"save_style", "delete_style"}
            => UNCHANGED creators_collection
       /\ last'.op \in {"save_creator", "delete_creator"}
            => UNCHANGED my_style_collection
       /\ last'.op = "improve"
            => UNCHANGED storeVars
      ]_vars

(* C10 witness: a style entry was just saved beside stored creator
   content. *)
C10_Witness ==
    /\ last = [op |-> "save_style", arg |-> "valid"]
    /\ Size(my_style_collection) = 2
    /\ DOMAIN creators_collection # {}

====
